---------------------------- MODULE Spec2Model ----------------------------
(***************************************************************************)
(* Procurement analytics engine (src/src/analysis/analyze_data.py) behind  *)
(* the request handlers of src/src/api/routers/purchase_orders.py.         *)
(*                                                                         *)
(* State: MASTER_DF, the table loaded once when the router module is       *)
(* imported, and the body of the last response a handler produced.         *)
(*                                                                         *)
(* Numbers are exact rationals [k, n, d] with the IEEE specials the code   *)
(* can produce (nan, inf); binary rounding of floats is not modelled.      *)
(* pandas defaults are modelled as pandas applies them: groupby drops rows *)
(* whose key is null (dropna=True), sum/mean/min/std skip nan (skipna),    *)
(* sum of nothing is 0, mean/min of nothing is nan, std of fewer than two  *)
(* values is nan, nunique does not count null, merge is an inner join.     *)
(***************************************************************************)
EXTENDS Integers, Sequences, FiniteSets

VARIABLES table, response

vars == <<table, response>>

-----------------------------------------------------------------------------
(* Bounds of the model *)

\* most rows of a table
MaxRows == 2

\* most rows of a table of the price volatility runs
MaxRowsVol == 3

-----------------------------------------------------------------------------
(* Floating-point values: exact rationals plus nan and +/-inf *)

NA == "<NA>"

NaN == [k |-> "nan", n |-> 0, d |-> 1]

Inf(s) == [k |-> "inf", n |-> s, d |-> 1]

Abs(x) == IF x < 0 THEN -x ELSE x

Sign(x) == IF x < 0 THEN -1 ELSE IF x = 0 THEN 0 ELSE 1

RECURSIVE Gcd(_, _)
Gcd(a, b) == IF b = 0 THEN a ELSE Gcd(b, a % b)

\* the rational n/d (d > 0) in lowest terms
Rat(n, d) ==
    LET g == Gcd(Abs(n), d)
    IN  [k |-> "num", n |-> n \div g, d |-> d \div g]

Num(x) == [k |-> "num", n |-> x, d |-> 1]

IsNum(f) == f.k = "num"

IsNaN(f) == f.k = "nan"

FAdd(a, b) ==
    IF IsNum(a) /\ IsNum(b) THEN Rat(a.n * b.d + b.n * a.d, a.d * b.d)
    ELSE IF IsNaN(a) \/ IsNaN(b) THEN NaN
    ELSE IF IsNum(a) THEN b
    ELSE IF IsNum(b) THEN a
    ELSE IF a.n = b.n THEN a ELSE NaN

FNeg(a) == IF IsNaN(a) THEN NaN ELSE [a EXCEPT !.n = -a.n]

FSub(a, b) == FAdd(a, FNeg(b))

FMul(a, b) ==
    IF IsNum(a) /\ IsNum(b) THEN Rat(a.n * b.n, a.d * b.d)
    ELSE IF IsNaN(a) \/ IsNaN(b) THEN NaN
    ELSE IF Sign(a.n) * Sign(b.n) = 0 THEN NaN
    ELSE Inf(Sign(a.n) * Sign(b.n))

\* numpy true division: x/0 is +/-inf, 0/0 is nan, never an exception
FDiv(a, b) ==
    IF IsNum(a) /\ IsNum(b)
    THEN IF b.n # 0 THEN Rat(a.n * b.d * Sign(b.n), a.d * Abs(b.n))
         ELSE IF a.n = 0 THEN NaN ELSE Inf(Sign(a.n))
    ELSE IF IsNaN(a) \/ IsNaN(b) THEN NaN
    ELSE IF IsNum(b) THEN Inf(a.n * (IF b.n < 0 THEN -1 ELSE 1))
    ELSE IF IsNum(a) THEN Num(0)
    ELSE NaN

\* a <= b as IEEE compares: FALSE whenever an operand is nan
FLe(a, b) ==
    IF IsNaN(a) \/ IsNaN(b) THEN FALSE
    ELSE IF IsNum(a) /\ IsNum(b) THEN a.n * b.d <= b.n * a.d
    ELSE IF IsNum(a) THEN b.n > 0
    ELSE IF IsNum(b) THEN a.n < 0
    ELSE a.n <= b.n

FGe(a, b) == FLe(b, a)

FLt(a, b) == FLe(a, b) /\ a # b

-----------------------------------------------------------------------------
(* Series reductions (pandas, skipna=True) *)

\* the values of column c of the rows of df, as a sequence
Col(df, c) == [i \in 1..Len(df) |-> df[i][c]]

\* Series.dropna
DropNaN(s) == SelectSeq(s, LAMBDA f : ~IsNaN(f))

RECURSIVE SumAll(_)
SumAll(s) == IF s = <<>> THEN Num(0) ELSE FAdd(Head(s), SumAll(Tail(s)))

\* Series.sum: nan skipped, the sum of nothing is 0
Sum(s) == SumAll(DropNaN(s))

\* Series.mean: nan skipped, the mean of nothing is nan
Mean(s) ==
    LET v == DropNaN(s)
    IN  IF v = <<>> THEN NaN ELSE FDiv(SumAll(v), Num(Len(v)))

RECURSIVE MinAll(_)
MinAll(s) ==
    IF Len(s) = 1 THEN Head(s)
    ELSE LET m == MinAll(Tail(s)) IN IF FLe(Head(s), m) THEN Head(s) ELSE m

\* Series.min: nan skipped, the min of nothing is nan
Min(s) ==
    LET v == DropNaN(s)
    IN  IF v = <<>> THEN NaN ELSE MinAll(v)

\* Series.nunique of a key column: null is not counted
NUnique(s) == Cardinality({s[i] : i \in 1..Len(s)} \ {NA})

\* the rows of df whose columns cols hold the values of key
RowsOf(df, cols, key) ==
    SelectSeq(df, LAMBDA r : \A c \in cols : r[c] = key[c])

\* df.groupby(cols): the keys of the groups; a row with a null key is in none
GroupKeys(df, cols) ==
    {[c \in cols |-> df[i][c]] : i \in {j \in 1..Len(df) : \A c \in cols : df[j][c] # NA}}

-----------------------------------------------------------------------------
(* Output formatting *)

\* f"{x:.2f}": x in hundredths, rounded to nearest (ties to even);
\* nan and inf print as themselves
Fmt2(f) ==
    IF ~IsNum(f) THEN [k |-> f.k, v |-> f.n]
    ELSE LET q == (100 * f.n) \div f.d
             r == (100 * f.n) % f.d
         IN  [k |-> "num",
              v |-> IF 2 * r > f.d \/ (2 * r = f.d /\ q % 2 = 1) THEN q + 1 ELSE q]

-----------------------------------------------------------------------------
(* calculate_kpis *)

\* df.groupby('product_id')['unit_price'].min(): one entry per non-null product
MinPriceByProduct(df) ==
    [p \in {key.product_id : key \in GroupKeys(df, {"product_id"})} |->
        Min(Col(RowsOf(df, {"product_id"}, [product_id |-> p]), "unit_price"))]

\* pd.merge(df, min_prices, on='product_id'): inner join, the rows whose
\* product_id has no entry on the right are dropped
MergeMinPrice(df) ==
    LET mp == MinPriceByProduct(df)
        kept == SelectSeq(df, LAMBDA r : r.product_id \in DOMAIN mp)
    IN  [i \in 1..Len(kept) |->
            [unit_price |-> kept[i].unit_price,
             quantity |-> kept[i].quantity,
             min_price |-> mp[kept[i].product_id]]]

\* mutant: the subtraction the other way round
SavingPotential_Swapped(df) ==
    LET m == MergeMinPrice(df)
    IN  Sum([i \in 1..Len(m) |->
                FMul(FSub(m[i].min_price, m[i].unit_price), m[i].quantity)])

SavingPotential(df) ==
    LET m == MergeMinPrice(df)
    IN  Sum([i \in 1..Len(m) |->
                FMul(FSub(m[i].unit_price, m[i].min_price), m[i].quantity)])

\* df.groupby('product_id')['supplier_id'].nunique()
SupplierCounts(df) ==
    [p \in {key.product_id : key \in GroupKeys(df, {"product_id"})} |->
        NUnique(Col(RowsOf(df, {"product_id"}, [product_id |-> p]), "supplier_id"))]

FragmentedSkus(df) ==
    LET sc == SupplierCounts(df)
    IN  Cardinality({p \in DOMAIN sc : sc[p] > 1})

\* fragmented_skus / df['product_id'].nunique() * 100 (a numpy integer over
\* an int: 0/0 is nan with a warning, not ZeroDivisionError)
FragmentationRate(df) ==
    FMul(FDiv(Num(FragmentedSkus(df)), Num(NUnique(Col(df, "product_id")))), Num(100))

calculate_kpis(df) ==
    [total_spend |-> Fmt2(Sum(Col(df, "net_value"))),
     potential_savings |-> Fmt2(SavingPotential(df)),
     total_purchase_orders |-> NUnique(Col(df, "purchase_order_id")),
     total_active_suppliers |-> NUnique(Col(df, "supplier_id")),
     fragmented_skus |-> FragmentedSkus(df),
     fragmentation_rate |-> Fmt2(FragmentationRate(df))]

-----------------------------------------------------------------------------
(* calculate_sku_analysis, filter_sku_analysis *)

SkuKeyCols == {"department", "product_id", "description", "supplier_id"}

\* mutant: the minimum over the whole table, not per product
BestPricesPerSku_Global(df) ==
    [p \in {key.product_id : key \in GroupKeys(df, {"product_id"})} |->
        Min(Col(df, "unit_price"))]

\* df.groupby('product_id')['unit_price'].min() as best_available_price
BestPricesPerSku(df) ==
    [p \in {key.product_id : key \in GroupKeys(df, {"product_id"})} |->
        Min(Col(RowsOf(df, {"product_id"}, [product_id |-> p]), "unit_price"))]

\* one row per (department, product_id, description, supplier_id) group, as
\* a set: the group keys are distinct, and the order of the rows (sorted by
\* key) is not modelled
calculate_sku_analysis(df) ==
    LET best == BestPricesPerSku(df)
    IN  {LET g == RowsOf(df, SkuKeyCols, key)
             qty == Sum(Col(g, "quantity"))
             avg == Mean(Col(g, "unit_price"))
         IN  [department |-> key.department,
              product_id |-> key.product_id,
              description |-> key.description,
              supplier_id |-> key.supplier_id,
              quantity_purchased |-> qty,
              avg_price_paid |-> avg,
              best_available_price |-> best[key.product_id],
              cost_above_best_price |-> FMul(FSub(avg, best[key.product_id]), qty)]
         : key \in GroupKeys(df, SkuKeyCols)}

\* mutant: no early return, the threshold test is always applied
filter_sku_analysis_NoEarlyReturn(df, departments, suppliers, cost_threshold) ==
    {r \in df :
        /\ departments = {} \/ r.department \in departments
        /\ suppliers = {} \/ r.supplier_id \in suppliers
        /\ FGe(r.cost_above_best_price, Num(cost_threshold))}

\* mutant: the threshold test is applied only to a threshold that was given
filter_sku_analysis_ThresholdIfSet(df, departments, suppliers, cost_threshold) ==
    {r \in df :
        /\ departments = {} \/ r.department \in departments
        /\ suppliers = {} \/ r.supplier_id \in suppliers
        /\ cost_threshold = 0 \/ FGe(r.cost_above_best_price, Num(cost_threshold))}

\* departments and suppliers are the sets of the values listed (isin), empty
\* for None or []
filter_sku_analysis(df, departments, suppliers, cost_threshold) ==
    IF departments = {} /\ suppliers = {} /\ cost_threshold = 0
    THEN df
    ELSE LET by_dept == IF departments # {}
                        THEN {r \in df : r.department \in departments}
                        ELSE df
             by_supp == IF suppliers # {}
                        THEN {r \in by_dept : r.supplier_id \in suppliers}
                        ELSE by_dept
         IN  {r \in by_supp : FGe(r.cost_above_best_price, Num(cost_threshold))}

-----------------------------------------------------------------------------
(* calculate_critical_suppliers *)

RiskKeyCols == {"product_id", "description"}

\* every arrangement of the rows S in descending order of column c; rows
\* that tie come in any order (sort_values uses quicksort, which is not
\* stable)
RECURSIVE SortedDescending(_, _)
SortedDescending(S, c) ==
    IF S = {} THEN {<<>>}
    ELSE UNION {{<<x>> \o rest : rest \in SortedDescending(S \ {x}, c)} :
                    x \in {y \in S : \A z \in S : FLe(z[c], y[c])}}

\* df.groupby(['product_id', 'description']).agg(total_net_value=sum,
\* supplier_count=nunique).reset_index()
SkuSummary(df) ==
    {LET g == RowsOf(df, RiskKeyCols, key)
     IN  [product_id |-> key.product_id,
          description |-> key.description,
          total_net_value |-> Sum(Col(g, "net_value")),
          supplier_count |-> NUnique(Col(g, "supplier_id"))]
     : key \in GroupKeys(df, RiskKeyCols)}

\* mutant: each group's own share of the total, without the running sum
CumSpendPct_OwnShare(sorted) ==
    LET totals == Col(sorted, "total_net_value")
    IN  [i \in 1..Len(sorted) |->
            [product_id |-> sorted[i].product_id,
             description |-> sorted[i].description,
             total_net_value |-> sorted[i].total_net_value,
             supplier_count |-> sorted[i].supplier_count,
             cum_spend_pct |-> FMul(FDiv(totals[i], Sum(totals)), Num(100))]]

\* (total_net_value.cumsum() / total_net_value.sum()) * 100 over the sorted
\* summary
CumSpendPct(sorted) ==
    LET totals == Col(sorted, "total_net_value")
    IN  [i \in 1..Len(sorted) |->
            [product_id |-> sorted[i].product_id,
             description |-> sorted[i].description,
             total_net_value |-> sorted[i].total_net_value,
             supplier_count |-> sorted[i].supplier_count,
             cum_spend_pct |->
                 FMul(FDiv(Sum(SubSeq(totals, 1, i)), Sum(totals)), Num(100))]]

\* sku_summary[cum_spend_pct <= 80]['product_id']
TopSpendSkus(sku_summary) ==
    {sku_summary[i].product_id :
        i \in {j \in 1..Len(sku_summary) : FLe(sku_summary[j].cum_spend_pct, Num(80))}}

\* the rows of the summary whose product is a top-spend one and that count
\* one supplier
CriticalSingleSourced(sku_summary) ==
    SelectSeq(sku_summary,
              LAMBDA r : r.product_id \in TopSpendSkus(sku_summary) /\ r.supplier_count = 1)

\* df[['product_id', 'supplier_id']].drop_duplicates()
SupplierInfo(df) ==
    {[product_id |-> df[i].product_id, supplier_id |-> df[i].supplier_id] :
        i \in 1..Len(df)}

\* pd.merge(critical, supplier_info, on='product_id'): one row per critical
\* row and (product, supplier) pair of its product
MergeSuppliers(critical, supplier_info) ==
    UNION {{[product_id |-> critical[i].product_id,
             description |-> critical[i].description,
             supplier_id |-> si.supplier_id,
             total_net_value |-> critical[i].total_net_value] :
                si \in {x \in supplier_info : x.product_id = critical[i].product_id}} :
           i \in 1..Len(critical)}

\* the runs of calculate_critical_suppliers on df, one per order the two
\* sorts may leave tied rows in: the summary with its cumulative percentages
\* and the frame returned
calculate_critical_suppliers(df) ==
    UNION {LET sku_summary == CumSpendPct(sorted)
               merged == MergeSuppliers(CriticalSingleSourced(sku_summary),
                                        SupplierInfo(df))
           IN  {[sku_summary |-> sku_summary, critical_risk_suppliers |-> out] :
                    out \in SortedDescending(merged, "total_net_value")}
           : sorted \in SortedDescending(SkuSummary(df), "total_net_value")}

-----------------------------------------------------------------------------
(* calculate_price_volatility *)

\* s * sqrt(n / d) for a sign s and n, d > 0, held as [k = "sqrt", s * n, d]:
\* the standard deviation is the root of a rational
Sqrt(s, n, d) ==
    LET r == Rat(n, d) IN [k |-> "sqrt", n |-> s * r.n, d |-> r.d]

RECURSIVE SumSquares(_)
SumSquares(s) ==
    IF s = <<>> THEN Num(0) ELSE FAdd(FMul(Head(s), Head(s)), SumSquares(Tail(s)))

\* Series.std (ddof=1): nan skipped, nan for fewer than two values
Std(s) ==
    LET v == DropNaN(s)
        n == Len(v)
        var == FDiv(FSub(FMul(Num(n), SumSquares(v)), FMul(SumAll(v), SumAll(v))),
                    Num(n * (n - 1)))
    IN  IF n < 2 THEN NaN
        ELSE IF var.n = 0 THEN Num(0)
        ELSE Sqrt(1, var.n, var.d)

\* (std / mean) * 100: 0/0 is nan, x/0 is inf
CvPct(std, mean) ==
    IF IsNaN(std) \/ IsNaN(mean) THEN NaN
    ELSE IF mean.n = 0 THEN (IF std = Num(0) THEN NaN ELSE Inf(1))
    ELSE IF std = Num(0) THEN Num(0)
    ELSE Sqrt(Sign(mean.n), std.n * mean.d * mean.d * 10000, std.d * mean.n * mean.n)

\* a <= b for the values of the CV_% column, nan below everything: sort_values
\* puts nan last whatever the direction
CvLe(a, b) ==
    LET class(x) == IF IsNaN(x) THEN 0
                    ELSE IF x.k = "inf" THEN (IF x.n < 0 THEN 1 ELSE 5)
                    ELSE IF x.n < 0 THEN 2
                    ELSE IF x.n = 0 THEN 3
                    ELSE 4
    IN  IF class(a) # class(b) THEN class(a) < class(b)
        ELSE IF a.k = "sqrt" /\ b.k = "sqrt" THEN a.n * b.d <= b.n * a.d
        ELSE IF IsNum(a) /\ IsNum(b) THEN a.n * b.d <= b.n * a.d
        ELSE TRUE

\* every arrangement of the rows S in descending order of CV_pct, nan last;
\* rows that tie come in any order
RECURSIVE SortedByCv(_)
SortedByCv(S) ==
    IF S = {} THEN {<<>>}
    ELSE UNION {{<<x>> \o rest : rest \in SortedByCv(S \ {x})} :
                    x \in {y \in S : \A z \in S : CvLe(z.CV_pct, y.CV_pct)}}

VolNumCols == {"mean", "std", "CV_pct"}

\* mutant: the missing values are left as they are
FillNa0_Identity(df) == df

\* DataFrame.fillna(0) on the frame of the volatility rows
FillNa0(df) ==
    [i \in 1..Len(df) |->
        [c \in DOMAIN df[i] |->
            IF c \in VolNumCols /\ IsNaN(df[i][c]) THEN Num(0) ELSE df[i][c]]]

\* df.groupby(['product_id', 'description'])['unit_price'].agg(['mean', 'std'])
\* with the CV_% column
PriceVolatility(df) ==
    {LET prices == Col(RowsOf(df, RiskKeyCols, key), "unit_price")
     IN  [product_id |-> key.product_id,
          description |-> key.description,
          mean |-> Mean(prices),
          std |-> Std(prices),
          CV_pct |-> CvPct(Std(prices), Mean(prices))]
     : key \in GroupKeys(df, RiskKeyCols)}

\* the frames calculate_price_volatility may return for df, one per order
\* the sort may leave tied rows in
calculate_price_volatility(df) ==
    {FillNa0(sorted) : sorted \in SortedByCv(PriceVolatility(df))}

-----------------------------------------------------------------------------
(* calculate_demand_forecast *)

\* nlargest(5)
TopSkus == 5

\* len(sku_history) > 2
MinHistory == 2

\* model.forecast(3)
ForecastSteps == 3

\* the product ids, in the order of a sorted index
ProductOrder == <<"P1", "P2", "P3", "P4", "P5", "P6">>

Rank(p) == CHOOSE i \in 1..Len(ProductOrder) : ProductOrder[i] = p

\* df.groupby('product_id')['quantity'].sum(): indexed by the sorted non-null
\* product ids
TotalQuantity(df) ==
    [p \in {key.product_id : key \in GroupKeys(df, {"product_id"})} |->
        Sum(Col(RowsOf(df, {"product_id"}, [product_id |-> p]), "quantity"))]

\* Series.nlargest(n) (keep='first'): the index of the n largest values in
\* descending order, equal values in the order of the index
RECURSIVE NLargest(_, _)
NLargest(totals, n) ==
    IF n = 0 \/ DOMAIN totals = {} THEN <<>>
    ELSE LET first == CHOOSE p \in DOMAIN totals :
                        \A o \in DOMAIN totals \ {p} :
                            \/ FLt(totals[o], totals[p])
                            \/ totals[o] = totals[p] /\ Rank(p) < Rank(o)
         IN  <<first>> \o NLargest([o \in DOMAIN totals \ {first} |-> totals[o]], n - 1)

\* the elements of a set of integers in ascending order
RECURSIVE Ascending(_)
Ascending(S) ==
    IF S = {} THEN <<>>
    ELSE LET m == CHOOSE x \in S : \A y \in S : x <= y
         IN  <<m>> \o Ascending(S \ {m})

\* the rows of monthly_demand_ts of one product, indexed by month: one entry
\* per month (created_date is held as the number of its month) in which the
\* product has a row, with the sum of the quantities of the month; a month
\* without a row is absent
SkuHistory(df, sku) ==
    LET rows == RowsOf(df, {"product_id"}, [product_id |-> sku])
        months == Ascending({rows[i].created_date : i \in 1..Len(rows)})
    IN  [i \in 1..Len(months) |->
            [created_date |-> months[i],
             quantity |-> Sum(Col(RowsOf(rows, {"created_date"},
                                         [created_date |-> months[i]]), "quantity"))]]

\* the frequency the model infers for the index of the history, in months
\* (DatetimeIndex.inferred_freq: at least three dates, equally spaced); 0
\* when none is inferred
InferredFreq(dates) ==
    IF /\ Len(dates) >= 3
       /\ \A i \in 2..Len(dates) : dates[i] - dates[i - 1] = dates[2] - dates[1]
    THEN dates[2] - dates[1]
    ELSE 0

\* model.forecast(3).reset_index(): three rows. With an inferred frequency
\* the index continues the dates of the history at that frequency; without
\* one the date index is ignored and the index is the integer positions
\* nobs, nobs + 1, nobs + 2. The quantity is the value the fitted smoothing
\* model predicts from the history, the same for the three rows.
Forecast(sku, history) ==
    LET dates == Col(history, "created_date")
        freq == InferredFreq(dates)
    IN  [j \in 1..ForecastSteps |->
            [product_id |-> sku,
             Forecast_Date |->
                 IF freq # 0
                 THEN [k |-> "month", v |-> dates[Len(dates)] + j * freq]
                 ELSE [k |-> "position", v |-> Len(dates) + j - 1],
             Forecast_Quantity |-> [k |-> "ses", history |-> Col(history, "quantity")]]]

\* len(sku_history) > 2
HasHistory(sku_history) == Len(sku_history) > MinHistory

\* the loop over top_5_skus_by_qty and pd.concat(all_forecasts)
RECURSIVE AllForecasts(_, _)
AllForecasts(df, skus) ==
    IF skus = <<>> THEN <<>>
    ELSE LET sku_history == SkuHistory(df, Head(skus))
         IN  (IF HasHistory(sku_history) THEN Forecast(Head(skus), sku_history) ELSE <<>>)
             \o AllForecasts(df, Tail(skus))

\* mutant: every product is forecast, not the five of largest quantity
TopSkusByQty_All(df) ==
    NLargest(TotalQuantity(df), Len(ProductOrder))

TopSkusByQty(df) == NLargest(TotalQuantity(df), TopSkus)

\* the frame returned: the forecasts in the order of top_5_skus_by_qty, the
\* empty frame when there is none
calculate_demand_forecast(df) == AllForecasts(df, TopSkusByQty(df))

ForecastNumCols == {"Forecast_Quantity"}

-----------------------------------------------------------------------------
(* to_json_safe_dict *)

JsonNull == [k |-> "null", n |-> 0, d |-> 1]

SkuNumCols == {"quantity_purchased", "avg_price_paid", "best_available_price",
               "cost_above_best_price"}

RiskNumCols == {"total_net_value"}

\* one record of df.replace({np.nan: None, pd.NaT: None}): nan becomes None,
\* every other value (inf included) is kept; numcols are the numeric columns
JsonRecord(r, numcols) ==
    [c \in DOMAIN r |-> IF c \in numcols /\ IsNaN(r[c]) THEN JsonNull ELSE r[c]]

\* to_json_safe_dict of a frame held as a set of rows
to_json_safe_dict(df, numcols) == {JsonRecord(r, numcols) : r \in df}

\* to_json_safe_dict of a frame held as a sequence of rows
to_json_safe_records(df, numcols) ==
    [i \in 1..Len(df) |-> JsonRecord(df[i], numcols)]

-----------------------------------------------------------------------------
(* Tables *)

MkRow(dept, p, desc, s, q, u, nv) ==
    [purchase_order_id |-> "PO1", department |-> dept, product_id |-> p,
     description |-> desc, supplier_id |-> s, quantity |-> q,
     unit_price |-> u, net_value |-> nv]

\* every table of at most max rows drawn from R
Tables(R, max) == UNION {[1..n -> R] : n \in 0..max}

NoResponse == [kind |-> "none"]

\* rows that vary what the KPIs read; net_value is quantity * unit_price
RowsKpi ==
    {MkRow("D1", p, "d1", s, q, u, FMul(q, u)) :
        p \in {"P1", "P2", NA}, s \in {"S1", "S2"},
        q \in {Num(-1), Num(1), NaN}, u \in {Num(10), Num(20), NaN}}

\* rows that vary what the SKU analysis and its filters read: product P1 in
\* every department and from every supplier, product P2 in D1 from S1
RowsSku ==
    {r \in {MkRow(dept, p, "d1", s, q, u, FMul(q, u)) :
                dept \in {"D1", "D2"}, p \in {"P1", "P2"}, s \in {"S1", "S2"},
                q \in {Num(-1), Num(1)}, u \in {Num(10), Num(20), NaN}} :
        r.product_id = "P1" \/ (r.department = "D1" /\ r.supplier_id = "S1")}

\* rows that vary what the risk analysis reads
RowsRisk ==
    {MkRow("D1", p, desc, s, Num(1), nv, nv) :
        p \in {"P1", "P2"}, desc \in {"d1", "d2"}, s \in {"S1", "S2"},
        nv \in {NaN, Num(-1), Num(0), Num(1), Num(4), Num(9)}}

\* rows that vary what the price volatility reads
RowsVol ==
    {MkRow("D1", p, desc, "S1", Num(1), u, u) :
        p \in {"P1", "P2"}, desc \in {"d1", "d2"},
        u \in {NaN, Num(-10), Num(0), Num(10), Num(20)}}

\* latest month of a row of the demand forecast runs
MaxMonth == 4

MkDatedRow(p, q, month) ==
    [purchase_order_id |-> "PO1", department |-> "D1", product_id |-> p,
     description |-> "d1", supplier_id |-> "S1", quantity |-> q,
     unit_price |-> Num(10), net_value |-> FMul(q, Num(10)),
     created_date |-> month]

\* the rows of product p bought in quantity q in each month of months
MonthlyRows(p, q, months) ==
    LET ms == Ascending(months)
    IN  [i \in 1..Len(ms) |-> MkDatedRow(p, Num(q), ms[i])]

\* the ways a product is bought: in any set of months, the same quantity,
\* one of qs, in each
MonthlyProfiles(qs) ==
    {[months |-> m, q |-> q] : m \in SUBSET (1..MaxMonth), q \in qs}

\* tables that vary what the demand forecast reads: P1 bought in any months,
\* one or two units a month, P2 in any months, one unit a month, and any of
\* P3..P6 bought once, four units in month 1
TablesForecast ==
    {MonthlyRows("P1", a.q, a.months) \o MonthlyRows("P2", b.q, b.months)
        \o MonthlyRows("P3", 4, IF "P3" \in f THEN {1} ELSE {})
        \o MonthlyRows("P4", 4, IF "P4" \in f THEN {1} ELSE {})
        \o MonthlyRows("P5", 4, IF "P5" \in f THEN {1} ELSE {})
        \o MonthlyRows("P6", 4, IF "P6" \in f THEN {1} ELSE {}) :
        a \in MonthlyProfiles({1, 2}), b \in MonthlyProfiles({1}),
        f \in SUBSET {"P3", "P4", "P5", "P6"}}

\* rows that vary the grouping keys every view reads: each key present or
\* null
RowsEngine ==
    {[purchase_order_id |-> "PO1", department |-> dept, product_id |-> p,
      description |-> desc, supplier_id |-> s, quantity |-> Num(1),
      unit_price |-> Num(10), net_value |-> Num(10), created_date |-> 1] :
        dept \in {"D1", NA}, p \in {"P1", NA}, desc \in {"d1", NA},
        s \in {"S1", NA}}

\* the query parameters a request may carry
DepartmentFilters == {{}, {"D1"}}

SupplierFilters == {{}, {"S1"}}

CostThresholds == {0, 10}

-----------------------------------------------------------------------------
(* Request handlers *)

\* a handler runs to completion on the event loop (it awaits nothing), once
\* the response of the request before it has been sent
get_kpis ==
    /\ response = NoResponse
    /\ response' = [kind |-> "kpis", body |-> calculate_kpis(table)]
    /\ UNCHANGED table

\* mutant: the department filter is applied to MASTER_DF itself, which keeps
\* the rows selected
get_sku_analysis_table_InPlace ==
    /\ response = NoResponse
    /\ \E departments \in DepartmentFilters, suppliers \in SupplierFilters,
          cost_threshold \in CostThresholds :
            LET kept == IF departments = {} THEN table
                        ELSE SelectSeq(table, LAMBDA r : r.department \in departments)
                sku_analysis_df == calculate_sku_analysis(kept)
                filtered_df == filter_sku_analysis(sku_analysis_df,
                                   departments, suppliers, cost_threshold)
            IN  /\ table' = kept
                /\ response' = [kind |-> "sku",
                                departments |-> departments,
                                suppliers |-> suppliers,
                                cost_threshold |-> cost_threshold,
                                sku_analysis_df |-> sku_analysis_df,
                                filtered_df |-> filtered_df,
                                body |-> to_json_safe_dict(filtered_df, SkuNumCols)]

get_sku_analysis_table ==
    /\ response = NoResponse
    /\ \E departments \in DepartmentFilters, suppliers \in SupplierFilters,
          cost_threshold \in CostThresholds :
            LET sku_analysis_df == calculate_sku_analysis(table)
                filtered_df == filter_sku_analysis(sku_analysis_df,
                                   departments, suppliers, cost_threshold)
            IN  response' = [kind |-> "sku",
                             departments |-> departments,
                             suppliers |-> suppliers,
                             cost_threshold |-> cost_threshold,
                             sku_analysis_df |-> sku_analysis_df,
                             filtered_df |-> filtered_df,
                             body |-> to_json_safe_dict(filtered_df, SkuNumCols)]
    /\ UNCHANGED table

get_critical_suppliers ==
    /\ response = NoResponse
    /\ \E run \in calculate_critical_suppliers(table) :
            response' = [kind |-> "risk",
                         sku_summary |-> run.sku_summary,
                         critical_suppliers_df |-> run.critical_risk_suppliers,
                         body |-> to_json_safe_records(run.critical_risk_suppliers,
                                                       RiskNumCols)]
    /\ UNCHANGED table

get_price_volatility ==
    /\ response = NoResponse
    /\ \E price_volatility_df \in calculate_price_volatility(table) :
            response' = [kind |-> "volatility",
                         price_volatility_df |-> price_volatility_df,
                         body |-> to_json_safe_records(price_volatility_df, VolNumCols)]
    /\ UNCHANGED table

get_demand_forecast ==
    /\ response = NoResponse
    /\ LET forecast_df == calculate_demand_forecast(table)
       IN  response' = [kind |-> "forecast",
                        top_5_skus_by_qty |-> TopSkusByQty(table),
                        forecast_df |-> forecast_df,
                        body |-> to_json_safe_records(forecast_df, ForecastNumCols)]
    /\ UNCHANGED table

\* the response is serialised and sent; the derived view is discarded
send_response ==
    /\ response # NoResponse
    /\ response' = NoResponse
    /\ UNCHANGED table

InitKpi == table \in Tables(RowsKpi, MaxRows) /\ response = NoResponse

NextKpi == get_kpis \/ send_response

SpecKpi == InitKpi /\ [][NextKpi]_vars

InitSku == table \in Tables(RowsSku, MaxRows) /\ response = NoResponse

NextSku == get_sku_analysis_table \/ send_response

SpecSku == InitSku /\ [][NextSku]_vars

InitRisk == table \in Tables(RowsRisk, MaxRows) /\ response = NoResponse

NextRisk == get_critical_suppliers \/ send_response

SpecRisk == InitRisk /\ [][NextRisk]_vars

InitVol == table \in Tables(RowsVol, MaxRowsVol) /\ response = NoResponse

NextVol == get_price_volatility \/ send_response

SpecVol == InitVol /\ [][NextVol]_vars

InitForecast == table \in TablesForecast /\ response = NoResponse

NextForecast == get_demand_forecast \/ send_response

SpecForecast == InitForecast /\ [][NextForecast]_vars

InitEngine == table \in Tables(RowsEngine, MaxRows) /\ response = NoResponse

\* the requests of the engine, one after another in any order
NextEngine ==
    \/ get_kpis
    \/ get_sku_analysis_table
    \/ get_critical_suppliers
    \/ get_price_volatility
    \/ get_demand_forecast
    \/ send_response

SpecEngine == InitEngine /\ [][NextEngine]_vars

-----------------------------------------------------------------------------
(* Reference definitions of the KPIs, over ALL rows of the table *)

Products(df) == {df[i].product_id : i \in 1..Len(df)} \ {NA}

\* the minimum unit_price observed over the rows that share row i's product_id
\* (a null product_id being a value like any other)
RefMinPrice(df, i) ==
    Min(Col(RowsOf(df, {"product_id"}, [product_id |-> df[i].product_id]), "unit_price"))

RefSavings(df) ==
    Sum([i \in 1..Len(df) |->
            FMul(FSub(df[i].unit_price, RefMinPrice(df, i)), df[i].quantity)])

RefFragmented(df) ==
    Cardinality({p \in Products(df) :
        Cardinality({df[i].supplier_id : i \in {j \in 1..Len(df) : df[j].product_id = p}}
                    \ {NA}) > 1})

NoNegativeQuantity(df) ==
    \A i \in 1..Len(df) : IsNum(df[i].quantity) => df[i].quantity.n >= 0

-----------------------------------------------------------------------------
(* Claims about calculate_kpis, under SpecKpi *)

\* C1 (as claimed): Fragmented SKUs <= number of distinct product_id values;
\* Fragmentation Rate is a number in [0,100], and with zero distinct products
\* it is an explicit undefined sentinel: not a nan rendering, not 0.
C1_Claim ==
    response.kind = "kpis" =>
        LET b == response.body
            np == Cardinality(Products(table))
        IN  /\ b.fragmented_skus <= np
            /\ IF np = 0
               THEN b.fragmentation_rate.k \notin {"nan", "inf", "num"}
               ELSE /\ b.fragmentation_rate.k = "num"
                    /\ b.fragmentation_rate.v >= 0
                    /\ b.fragmentation_rate.v <= 10000

\* C2 (as claimed): Potential Savings >= 0 for every table in which, per
\* product, some row's price equals the product's minimum price.
C2_Claim ==
    (/\ response.kind = "kpis"
     /\ \A p \in Products(table) :
            LET rows == RowsOf(table, {"product_id"}, [product_id |-> p])
                m == Min(Col(rows, "unit_price"))
            IN  IsNum(m) => \E i \in 1..Len(rows) : rows[i].unit_price = m)
    => /\ response.body.potential_savings.k = "num"
       /\ response.body.potential_savings.v >= 0

\* C2 (amended): Potential Savings >= 0 for every table in which no row has
\* a negative quantity.
C2_Amended ==
    (response.kind = "kpis" /\ NoNegativeQuantity(table))
    => /\ response.body.potential_savings.k = "num"
       /\ response.body.potential_savings.v >= 0

\* C2 witness: a table without negative quantities whose savings are positive
C2_Witness ==
    /\ response.kind = "kpis"
    /\ NoNegativeQuantity(table)
    /\ response.body.potential_savings = [k |-> "num", v |-> 1000]

\* C3 (as claimed): the KPIs equal their reference definitions: Total Spend
\* is the sum of net_value over all rows, Potential Savings the sum over ALL
\* rows of (unit_price - min unit_price of the row's product_id) * quantity,
\* Fragmented SKUs the number of products with more than one supplier, and
\* Fragmentation Rate = Fragmented SKUs / distinct products * 100.
C3_Claim ==
    response.kind = "kpis" =>
        LET b == response.body
            np == Cardinality(Products(table))
        IN  /\ b.total_spend = Fmt2(Sum(Col(table, "net_value")))
            /\ b.potential_savings = Fmt2(RefSavings(table))
            /\ b.fragmented_skus = RefFragmented(table)
            /\ np > 0 => b.fragmentation_rate = Fmt2(Rat(RefFragmented(table) * 100, np))

\* C3, the worked example: P1 bought at 10 and at 20, quantity 1 each, from
\* two suppliers: Total Spend 30.00, Potential Savings 10.00, Fragmented
\* SKUs 1, Fragmentation Rate 100.00
C3_Example ==
    (/\ response.kind = "kpis"
     /\ table = <<MkRow("D1", "P1", "d1", "S1", Num(1), Num(10), Num(10)),
                  MkRow("D1", "P1", "d1", "S2", Num(1), Num(20), Num(20))>>)
    => /\ response.body.total_spend = [k |-> "num", v |-> 3000]
       /\ response.body.potential_savings = [k |-> "num", v |-> 1000]
       /\ response.body.fragmented_skus = 1
       /\ response.body.fragmentation_rate = [k |-> "num", v |-> 10000]

-----------------------------------------------------------------------------
(* Claims about the SKU analysis, under SpecSku *)

NoFilter == response.departments = {} /\ response.suppliers = {}
            /\ response.cost_threshold = 0

\* C4: with no departments, no suppliers and cost_threshold = 0 the filter
\* returns exactly the rows of the unfiltered SKU analysis.
C4_DefaultFilterIsIdentity ==
    (response.kind = "sku" /\ NoFilter)
    => /\ response.filtered_df = response.sku_analysis_df
       /\ response.sku_analysis_df = calculate_sku_analysis(table)

\* C4 witness: an unfiltered response that keeps a row the threshold test
\* would have removed (its cost is negative or nan)
C4_Witness ==
    /\ response.kind = "sku"
    /\ NoFilter
    /\ \E r \in response.filtered_df : ~FGe(r.cost_above_best_price, Num(0))

\* C5: with a filter active, the result is exactly the rows r with
\* (departments empty or r.department in departments) and (suppliers empty or
\* r.supplier_id in suppliers) and r.cost_above_best_price >= cost_threshold,
\* the threshold test being applied also when the threshold is 0.
C5_ActiveFilter ==
    (response.kind = "sku" /\ ~NoFilter)
    => response.filtered_df =
        {r \in response.sku_analysis_df :
            /\ response.departments = {} \/ r.department \in response.departments
            /\ response.suppliers = {} \/ r.supplier_id \in response.suppliers
            /\ FGe(r.cost_above_best_price, Num(response.cost_threshold))}

\* C5 witness: threshold 0 with a department filter active removes a row of
\* a selected department because its cost is below 0 or nan
C5_Witness ==
    /\ response.kind = "sku"
    /\ response.cost_threshold = 0
    /\ response.departments # {}
    /\ response.suppliers = {}
    /\ \E r \in response.sku_analysis_df :
          /\ r.department \in response.departments
          /\ r \notin response.filtered_df
    /\ response.filtered_df # {}

\* C6 (as claimed): every row of calculate_sku_analysis has
\* cost_above_best_price >= 0 (a missing cost, nan, not being held against
\* the claim).
C6_Claim ==
    response.kind = "sku" =>
        \A r \in response.sku_analysis_df : ~FLt(r.cost_above_best_price, Num(0))

\* C6 (amended): in a table without negative quantities every row of
\* calculate_sku_analysis has cost_above_best_price >= 0, or nan when the
\* group has no numeric unit_price; the cost is (mean unit_price of the group
\* - minimum unit_price of the product over the table) * quantity of the group.
C6_Amended ==
    (response.kind = "sku" /\ NoNegativeQuantity(table)) =>
        \A r \in response.sku_analysis_df :
            LET g == RowsOf(table, SkuKeyCols, [c \in SkuKeyCols |-> r[c]])
                p == RowsOf(table, {"product_id"}, [product_id |-> r.product_id])
            IN  /\ r.cost_above_best_price =
                       FMul(FSub(Mean(Col(g, "unit_price")), Min(Col(p, "unit_price"))),
                            Sum(Col(g, "quantity")))
                /\ IF IsNaN(r.avg_price_paid)
                   THEN IsNaN(r.cost_above_best_price)
                   ELSE FGe(r.cost_above_best_price, Num(0))

\* C6 witness: no negative quantity, and a group that paid more than the
\* best price of its product, which another group of the product paid
C6_Witness ==
    /\ response.kind = "sku"
    /\ NoNegativeQuantity(table)
    /\ \E r, o \in response.sku_analysis_df :
          /\ FLt(Num(0), r.cost_above_best_price)
          /\ o.product_id = r.product_id
          /\ o.avg_price_paid = r.best_available_price
          /\ FLt(o.avg_price_paid, r.avg_price_paid)

-----------------------------------------------------------------------------
(* Claims about calculate_critical_suppliers, under SpecRisk *)

NonDecreasing(s) == \A i, j \in 1..Len(s) : i < j => FLe(s[i], s[j])

\* total spend of product p over the table, and over the whole table
ProductSpend(df, p) ==
    Sum(Col(RowsOf(df, {"product_id"}, [product_id |-> p]), "net_value"))

SuppliersOf(df, p) ==
    {df[i].supplier_id : i \in {j \in 1..Len(df) : df[j].product_id = p}} \ {NA}

\* C7 (as claimed): the cumulative-spend percentages, in descending order of
\* total spend, are non-decreasing and the last one is 100, for every table.
C7_Claim ==
    response.kind = "risk" =>
        LET pct == Col(response.sku_summary, "cum_spend_pct")
        IN  /\ NonDecreasing(pct)
            /\ pct # <<>> => pct[Len(pct)] = Num(100)

\* C7 (amended): the same, for every table in which no (product_id,
\* description) group has a negative total spend and the total spend of the
\* table is positive.
C7_Amended ==
    (/\ response.kind = "risk"
     /\ \A i \in 1..Len(response.sku_summary) :
            FLe(Num(0), response.sku_summary[i].total_net_value)
     /\ FLt(Num(0), Sum(Col(response.sku_summary, "total_net_value"))))
    => LET pct == Col(response.sku_summary, "cum_spend_pct")
       IN  /\ NonDecreasing(pct)
           /\ pct[Len(pct)] = Num(100)

\* C7 witness: two groups of positive spend, at 90% and 100%
C7_Witness ==
    /\ response.kind = "risk"
    /\ Col(response.sku_summary, "cum_spend_pct") = <<Num(90), Num(100)>>

\* C8 (as claimed): in a table of several products without negative spend,
\* a product that accounts for 90% of the total spend and has exactly one
\* supplier is in the output of calculate_critical_suppliers.
C8_Claim ==
    response.kind = "risk" =>
        \A p \in Products(table) :
            (/\ Cardinality(Products(table)) > 1
             /\ \A i \in 1..Len(table) :
                    IsNum(table[i].net_value) => table[i].net_value.n >= 0
             /\ FLt(Num(0), Sum(Col(table, "net_value")))
             /\ FMul(ProductSpend(table, p), Num(10))
                    = FMul(Sum(Col(table, "net_value")), Num(9))
             /\ Cardinality(SuppliersOf(table, p)) = 1)
            => \E i \in 1..Len(response.critical_suppliers_df) :
                    response.critical_suppliers_df[i].product_id = p

\* C9 (as claimed, read on the tables whose net values are all positive):
\* every row of the output is for a product with exactly one distinct
\* supplier over the whole table, whose (product_id, description) group has a
\* cumulative percentage <= 80, and every flagged group yields exactly one
\* output row.
C9_Claim ==
    (/\ response.kind = "risk"
     /\ \A i \in 1..Len(table) : FLt(Num(0), table[i].net_value)) =>
        LET out == response.critical_suppliers_df
            summary == response.sku_summary
        IN  \A i \in 1..Len(out) :
                /\ Cardinality(SuppliersOf(table, out[i].product_id)) = 1
                /\ \E j \in 1..Len(summary) :
                      /\ summary[j].product_id = out[i].product_id
                      /\ summary[j].description = out[i].description
                      /\ FLe(summary[j].cum_spend_pct, Num(80))
                /\ Cardinality({k \in 1..Len(out) :
                        /\ out[k].product_id = out[i].product_id
                        /\ out[k].description = out[i].description}) = 1

\* the sum of the values of s that are not missing; missing when all are
SentinelSum(s) == IF DropNaN(s) = <<>> THEN NaN ELSE SumAll(DropNaN(s))

\* C15 (as claimed): the total_net_value of a group of the risk summary is
\* the sum of the net values of the group that are not missing, and it is
\* the missing sentinel, not 0, when all of them are missing.
C15_Claim ==
    response.kind = "risk" =>
        \A i \in 1..Len(response.sku_summary) :
            LET r == response.sku_summary[i]
                g == RowsOf(table, RiskKeyCols,
                            [product_id |-> r.product_id, description |-> r.description])
            IN  r.total_net_value = SentinelSum(Col(g, "net_value"))

\* C15 on the groups with a value: the sum skips the missing values
C15_SkipsMissing ==
    response.kind = "risk" =>
        \A i \in 1..Len(response.sku_summary) :
            LET r == response.sku_summary[i]
                g == RowsOf(table, RiskKeyCols,
                            [product_id |-> r.product_id, description |-> r.description])
            IN  DropNaN(Col(g, "net_value")) # <<>>
                    => r.total_net_value = SentinelSum(Col(g, "net_value"))

-----------------------------------------------------------------------------
(* Claims about calculate_price_volatility, under SpecVol *)

\* the distinct numeric unit_price values of product p over the table
PricesOf(df, p) ==
    {df[i].unit_price : i \in {j \in 1..Len(df) : df[j].product_id = p}} \ {NaN}

OnePriceIsZeroCv ==
    \A i \in 1..Len(response.price_volatility_df) :
        LET r == response.price_volatility_df[i]
        IN  Cardinality(PricesOf(table, r.product_id)) = 1 => r.CV_pct = Num(0)

\* C10 (as claimed): CV% is 0 for every product with exactly one distinct
\* unit_price (a product with a single row included), and CV% is never
\* negative.
C10_Claim ==
    response.kind = "volatility" =>
        /\ OnePriceIsZeroCv
        /\ \A i \in 1..Len(response.price_volatility_df) :
              response.price_volatility_df[i].CV_pct.n >= 0

\* C10 (amended): CV% is 0 for every product with exactly one distinct
\* unit_price (a product with a single row included), and CV% is never
\* negative for a product whose mean unit_price is not negative.
C10_Amended ==
    response.kind = "volatility" =>
        /\ OnePriceIsZeroCv
        /\ \A i \in 1..Len(response.price_volatility_df) :
              LET r == response.price_volatility_df[i]
              IN  r.mean.n >= 0 => r.CV_pct.n >= 0

\* C10 witness: a product with a single row (its std is undefined) beside a
\* product whose prices differ and whose CV% is positive
C10_Witness ==
    /\ response.kind = "volatility"
    /\ \E i, j \in 1..Len(response.price_volatility_df) :
          LET r == response.price_volatility_df[i]
              o == response.price_volatility_df[j]
          IN  /\ Len(RowsOf(table, {"product_id"}, [product_id |-> r.product_id])) = 1
              /\ Cardinality(PricesOf(table, r.product_id)) = 1
              /\ r.CV_pct = Num(0)
              /\ o.CV_pct.k = "sqrt" /\ o.CV_pct.n > 0

\* C11 (as claimed): for a product whose mean unit_price is exactly zero and
\* whose standard deviation is not zero, the CV% of the response body is the
\* undefined sentinel: not an infinite value and not a number (0 included).
C11_Claim ==
    response.kind = "volatility" =>
        \A i \in 1..Len(response.price_volatility_df) :
            LET r == response.price_volatility_df[i]
            IN  (r.mean = Num(0) /\ r.std.k = "sqrt")
                => response.body[i].CV_pct.k \notin {"inf", "num", "sqrt"}

-----------------------------------------------------------------------------
(* Claims about calculate_demand_forecast, under SpecForecast *)

\* the months in which product p has a row
MonthsObserved(df, p) ==
    {df[i].created_date : i \in {j \in 1..Len(df) : df[j].product_id = p}}

LastMonth(S) == CHOOSE m \in S : \A x \in S : x <= m

FirstMonth(S) == CHOOSE m \in S : \A x \in S : m <= x

ForecastRowsOf(p) == SelectSeq(response.forecast_df, LAMBDA r : r.product_id = p)

\* the rows of p are the three calendar months that follow its last month
FollowsLastMonth(p) ==
    LET rows == ForecastRowsOf(p)
    IN  /\ Len(rows) = 3
        /\ \A j \in 1..3 :
              rows[j].Forecast_Date =
                  [k |-> "month", v |-> LastMonth(MonthsObserved(table, p)) + j]

\* C12 (as claimed): a product the forecaster processes has no forecast row
\* when it has 2 or fewer monthly observations, and with 3 or more it has
\* exactly 3 forecast rows, for the 3 consecutive calendar months that follow
\* its last observed month, also when its observed months have gaps.
C12_Claim ==
    response.kind = "forecast" =>
        \A i \in 1..Len(response.top_5_skus_by_qty) :
            LET p == response.top_5_skus_by_qty[i]
            IN  IF Cardinality(MonthsObserved(table, p)) <= 2
                THEN ForecastRowsOf(p) = <<>>
                ELSE FollowsLastMonth(p)

\* C12 on the histories without a gap: the same, for the products whose
\* observed months are consecutive
C12_NoGaps ==
    response.kind = "forecast" =>
        \A i \in 1..Len(response.top_5_skus_by_qty) :
            LET p == response.top_5_skus_by_qty[i]
                obs == MonthsObserved(table, p)
            IN  IF Cardinality(obs) <= 2
                THEN ForecastRowsOf(p) = <<>>
                ELSE Cardinality(obs) = LastMonth(obs) - FirstMonth(obs) + 1
                        => FollowsLastMonth(p)

\* total quantity of product p over the table
ProductQuantity(df, p) ==
    Sum(Col(RowsOf(df, {"product_id"}, [product_id |-> p]), "quantity"))

\* o comes before p among the products of largest quantity: a larger total,
\* or the same total and an earlier product id
Outranks(df, o, p) ==
    \/ FLt(ProductQuantity(df, p), ProductQuantity(df, o))
    \/ ProductQuantity(df, p) = ProductQuantity(df, o) /\ Rank(o) < Rank(p)

\* p is one of the 5 products of largest quantity and has more than 2
\* monthly observations
Qualifies(df, p) ==
    /\ Cardinality({o \in Products(df) : Outranks(df, o, p)}) < 5
    /\ Cardinality(MonthsObserved(df, p)) > 2

\* C16: the forecast has rows only for products that are among the 5 of
\* largest total quantity and have more than 2 monthly observations; the
\* products come in descending order of total quantity, the rows of each
\* product together; and when no product qualifies the result is the empty
\* table.
C16_ForecastScope ==
    response.kind = "forecast" =>
        LET out == response.forecast_df
        IN  /\ \A i \in 1..Len(out) : Qualifies(table, out[i].product_id)
            /\ \A i, j \in 1..Len(out) :
                  i < j => FGe(ProductQuantity(table, out[i].product_id),
                               ProductQuantity(table, out[j].product_id))
            /\ \A i, j \in 1..Len(out) :
                  (i < j /\ out[i].product_id = out[j].product_id)
                  => \A m \in i..j : out[m].product_id = out[i].product_id
            /\ (\A p \in Products(table) : ~Qualifies(table, p))
                  => out = <<>> /\ response.body = <<>>

\* C16 witness: two products with more than 2 monthly observations, one
\* forecast and one left out because 5 products have a larger quantity
C16_Witness ==
    /\ response.kind = "forecast"
    /\ response.forecast_df # <<>>
    /\ \E p \in Products(table) :
          /\ Cardinality(MonthsObserved(table, p)) > 2
          /\ ForecastRowsOf(p) = <<>>

-----------------------------------------------------------------------------
(* Claims about the grouping keys, under SpecEngine *)

\* C13 (as claimed): a row with a null product_id, description, department
\* or supplier_id is in a group of every grouped view: the quantities of the
\* SKU analysis add up to the quantity of the table, the totals of the risk
\* summary to its net value, every row has a group in the volatility view,
\* and every row has a minimum price of its product in the KPIs.
C13_Claim ==
    /\ response.kind = "sku" =>
          LET groups == CHOOSE q \in SortedDescending(response.sku_analysis_df,
                                                      "quantity_purchased") : TRUE
          IN  Sum(Col(groups, "quantity_purchased")) = Sum(Col(table, "quantity"))
    /\ response.kind = "risk" =>
          Sum(Col(response.sku_summary, "total_net_value")) = Sum(Col(table, "net_value"))
    /\ response.kind = "volatility" =>
          \A i \in 1..Len(table) :
              \E j \in 1..Len(response.price_volatility_df) :
                  /\ response.price_volatility_df[j].product_id = table[i].product_id
                  /\ response.price_volatility_df[j].description = table[i].description
    /\ response.kind = "kpis" =>
          \A i \in 1..Len(table) : table[i].product_id \in DOMAIN MinPriceByProduct(table)

-----------------------------------------------------------------------------
(* Claims about the requests as a whole, under SpecEngine *)

=============================================================================
